---- MODULE Spec2Model ----
(***************************************************************************)
(* Combat / initiative tracker of the tabletop companion.                  *)
(*                                                                         *)
(* Server side: the Express routes of server/routes.ts over the            *)
(* DatabaseStorage of server/storage.ts (tables game_sessions and          *)
(* combatants of shared/schema.ts).  Client side: the handlers of          *)
(* EnhancedInitiativeTracker that build the requests.                      *)
(*                                                                         *)
(* Program state: gameSessions (table game_sessions), combatants (table   *)
(* combatants, rows in insertion order), nextId (the next fresh row id),   *)
(* clients (the Set of WebSocket connections of routes.ts, in insertion    *)
(* order), readyState (of every socket), fault (whether the transport of a *)
(* socket has failed and whether its 'error' event has been handled) and   *)
(* inbox (the messages each viewer has received on its socket).            *)
(* Observation of the last request handled: req (what was asked),          *)
(* res (the HTTP answer), sent (what broadcast() was given), prev (the     *)
(* tables and the sockets as they were before the request), hist (the      *)
(* number of consecutive next-turn calls on an unchanged roster since      *)
(* currentTurn was 0, and whether a combatant was removed since            *)
(* currentTurn was last written) and joined (the value of nextId when a    *)
(* socket connected).                                                      *)
(* Where requests overlap: calls (the next-turn requests in flight, each   *)
(* with what it has read and written so far).  Where viewers are followed: *)
(* views (per viewer, the roster and the session its tracker has fetched,  *)
(* which of the two queries is invalidated, how many of the received      *)
(* messages it has handled, and the turn the earlier InitiativeTracker     *)
(* keeps in the component).                                                *)
(***************************************************************************)
EXTENDS Integers, Sequences, FiniteSets, TLC

VARIABLES gameSessions, combatants, nextId, clients, readyState, fault, inbox,
          req, res, sent, prev, hist, joined, calls, views

vars == <<gameSessions, combatants, nextId, clients, readyState, fault, inbox,
          req, res, sent, prev, hist, joined, calls, views>>

(***************************************************************************)
(* Bounds of the model.                                                    *)
(***************************************************************************)
\* number of combatant rows ever inserted (ids are never reused)
MaxIds == 3
\* next-turn is not explored past this round
MaxRound == 3
\* integers typed into the initiative field range over -1..MaxInit
MaxInit == 1
\* integers typed into the HP / AC fields range over -MaxStat..MaxStat
MaxStat == 2
\* rows of the roster while HP and AC are explored
MaxStatRows == 1
\* status effects a combatant carries while status effects are explored
MaxEffects == 4
\* rows of the roster while status effects are explored
MaxEffectRows == 1
\* rows of the roster while missing sessions and combatants are addressed
MaxAddressRows == 2
\* rows of the roster while the events of the routes are explored
MaxEventRows == 1
\* rows of the roster, and the last round, while requests overlap
MaxRaceRows == 2
MaxRaceRound == 2
\* SpecCache: rows of the roster, effects of a stored list
MaxCacheRows == 1
MaxCacheEffects == 2
\* SpecSync: last round, messages a socket is sent
MaxSyncRound == 2
MaxSyncEvents == 3
\* SpecLegacy: rows of the roster, last round of the tracker
MaxLegacyRows == 2
MaxLegacyRound == 2
\* rows of the roster while the creation of combatants is explored
MaxCreateRows == 1

(***************************************************************************)
(* Column defaults of shared/schema.ts and the form defaults of the        *)
(* add-combatant dialog.                                                   *)
(***************************************************************************)
DefaultInitiative == 0
DefaultArmorClass == 10
DefaultCurrentHP == 1
DefaultMaxHP == 1
DefaultRound == 1
DefaultTurn == 0
MinArmorClass == 1
MinHP == 0

DefaultSession == "default-session"
MissingSession == "no-such-session"
SessionIds == {DefaultSession, MissingSession}

\* Names are sequences of characters; " " stands for any whitespace.
NoName == <<>>
BlankName == <<" ">>
OgreName == <<"O", "g">>
Names == {NoName, BlankName, OgreName}

Max(a, b) == IF a >= b THEN a ELSE b
Min(a, b) == IF a <= b THEN a ELSE b

(***************************************************************************)
(* String.prototype.trim on a name.                                        *)
(***************************************************************************)
RECURSIVE TrimLeft(_)
TrimLeft(s) == IF s # <<>> /\ Head(s) = " " THEN TrimLeft(Tail(s)) ELSE s

RECURSIVE TrimRight(_)
TrimRight(s) ==
    IF s # <<>> /\ s[Len(s)] = " " THEN TrimRight(SubSeq(s, 1, Len(s) - 1)) ELSE s

Trim(s) == TrimRight(TrimLeft(s))

(***************************************************************************)
(* A value typed into a number input: not a number, or an integer.         *)
(* ParseIntOr is `parseInt(e.target.value) || dflt`: NaN and 0 are falsy.  *)
(***************************************************************************)
NaN == [isNaN |-> TRUE, n |-> 0]
Typed(n) == [isNaN |-> FALSE, n |-> n]

ParseIntOr(t, dflt) == IF t.isNaN \/ t.n = 0 THEN dflt ELSE t.n

(***************************************************************************)
(* Storage: DatabaseStorage over the combatants and game_sessions tables.  *)
(* `combatants` holds the rows in insertion order.                         *)
(***************************************************************************)
SessionExists(sid) == sid \in DOMAIN gameSessions

getGameSession(sid) == gameSessions[sid]

\* UPDATE game_sessions SET <updates> WHERE id = sid: the columns named in
\* `updates` are overwritten, the others are kept.
updateGameSession(sid, updates) ==
    [gameSessions EXCEPT ![sid] =
        [f \in DOMAIN gameSessions[sid] |->
            IF f \in DOMAIN updates THEN updates[f] ELSE gameSessions[sid][f]]]

SessionRows(sid) == SelectSeq(combatants, LAMBDA c : c.sessionId = sid)

IsDescending(s) ==
    \A i \in 1..(Len(s) - 1) : s[i].initiative >= s[i + 1].initiative

\* desc(combatants.initiative): the rows among `among` that may come first
First(rows, among) ==
    {i \in among : \A j \in among : rows[i].initiative >= rows[j].initiative}

\* every arrangement of the rows `among` that ORDER BY initiative DESC allows
RECURSIVE OrderBy(_, _)
OrderBy(rows, among) ==
    IF among = {} THEN {<<>>}
    ELSE UNION {{<<rows[i]>> \o rest : rest \in OrderBy(rows, among \ {i})} :
                   i \in First(rows, among)}

\* SELECT ... WHERE session_id = sid ORDER BY initiative DESC.  The query
\* names no second sort key, so rows of equal initiative come back in any
\* order: every descending arrangement of the session's rows is a possible
\* result.
getCombatants(sid) ==
    LET rows == SessionRows(sid)
    IN OrderBy(rows, 1..Len(rows))

CombatantIds == {combatants[i].id : i \in 1..Len(combatants)}

RowOf(id) == CHOOSE i \in 1..Len(combatants) : combatants[i].id = id

Combatant(id) == combatants[RowOf(id)]

\* INSERT INTO combatants: a column the body does not name takes its default.
createCombatant(sid, body, id) ==
    [id |-> id,
     sessionId |-> sid,
     name |-> body.name,
     initiative |-> IF "initiative" \in DOMAIN body THEN body.initiative
                    ELSE DefaultInitiative,
     armorClass |-> IF "armorClass" \in DOMAIN body THEN body.armorClass
                    ELSE DefaultArmorClass,
     currentHP |-> IF "currentHP" \in DOMAIN body THEN body.currentHP
                   ELSE DefaultCurrentHP,
     maxHP |-> IF "maxHP" \in DOMAIN body THEN body.maxHP ELSE DefaultMaxHP,
     isActive |-> IF "isActive" \in DOMAIN body THEN body.isActive ELSE FALSE,
     statusEffects |-> IF "statusEffects" \in DOMAIN body THEN body.statusEffects
                       ELSE <<>>]

\* JavaScript v || dflt for an optional number: undefined and 0 are falsy
OrDefault(body, f, dflt) ==
    IF f \in DOMAIN body /\ body[f] # 0 THEN body[f] ELSE dflt

\* MemStorage.createCombatant of the earlier in-memory storage: every
\* optional field is read as insertCombatant.field || default, and the row
\* has no statusEffects.
createCombatantMem(sid, body, id) ==
    [id |-> id,
     sessionId |-> sid,
     name |-> body.name,
     initiative |-> OrDefault(body, "initiative", DefaultInitiative),
     armorClass |-> OrDefault(body, "armorClass", DefaultArmorClass),
     currentHP |-> OrDefault(body, "currentHP", DefaultCurrentHP),
     maxHP |-> OrDefault(body, "maxHP", DefaultMaxHP),
     isActive |-> IF "isActive" \in DOMAIN body THEN body.isActive ELSE FALSE]

\* UPDATE combatants SET <updates> WHERE id = id
updateCombatant(id, updates) ==
    [combatants EXCEPT ![RowOf(id)] =
        [f \in DOMAIN combatants[RowOf(id)] |->
            IF f \in DOMAIN updates THEN updates[f] ELSE combatants[RowOf(id)][f]]]

\* mutation of deleteCombatant: DELETE FROM combatants WHERE id >= id
deleteCombatantFrom(id) == SelectSeq(combatants, LAMBDA c : c.id < id)

\* DELETE FROM combatants WHERE id = id
deleteCombatant(id) == SelectSeq(combatants, LAMBDA c : c.id # id)


(***************************************************************************)
(* What is recorded of a request once it has been handled.                 *)
(***************************************************************************)
NoActive == 0

\* mutation of Event: one type for every change of a combatant
EventGeneric(type, id) == [type |-> "combatant_changed", id |-> id]

Event(type, id) == [type |-> type, id |-> id]

\* { type, data: session }
SessionEvent(type, session) == [type |-> type, id |-> 0, session |-> session]

(***************************************************************************)
(* The WebSocket server: clients, the connection handlers and broadcast(). *)
(***************************************************************************)
Sockets == {"ws1", "ws2"}

\* clients.has(ws)
InClients(ws) == \E i \in 1..Len(clients) : clients[i] = ws

\* clients.add(ws)
ClientsAdd(ws) == IF InClients(ws) THEN clients ELSE Append(clients, ws)

\* clients.delete(ws)
ClientsDelete(ws) == SelectSeq(clients, LAMBDA c : c # ws)

\* mutation of SendGuard: every client is sent to
SendGuardAlways(client) == TRUE

\* if (client.readyState === WebSocket.OPEN)
SendGuard(client) == readyState[client] = "OPEN"

\* client.send(message) without a callback throws on a socket that is not
\* open
SendRaises(client) == readyState[client] # "OPEN"

\* the first position at which clients.forEach is left by an exception,
\* Len(clients) + 1 if it runs to its end
FirstRaise ==
    LET raising == {i \in 1..Len(clients) :
                       SendGuard(clients[i]) /\ SendRaises(clients[i])}
    IN  IF raising = {} THEN Len(clients) + 1
        ELSE CHOOSE i \in raising : \A j \in raising : i <= j

BroadcastRaises == FirstRaise <= Len(clients)

\* the sockets broadcast() calls send on, and those of them whose transport
\* carries the message to the viewer
SentTo == {clients[i] : i \in {j \in 1..Len(clients) :
                                  j < FirstRaise /\ SendGuard(clients[j])}}
Receivers == {ws \in SentTo : fault[ws] = "no"}

\* broadcast(data), events being the messages it is given
Broadcast(events) ==
    inbox' = [ws \in Sockets |->
                 IF ws \in Receivers THEN inbox[ws] \o events ELSE inbox[ws]]

\* the status of the catch block of the route of `op`
CatchStatus(op) == IF op \in {"addCombatant", "addCombatantMem"} THEN 400 ELSE 500

\* the earlier InitiativeTracker of a viewer when it is mounted:
\* useState(0), useState(1), no PATCH to send; and of its last nextTurn()
\* what it started from, the combatant it marked and the one it showed
LegacyView ==
    [activeIndex |-> 0, currentRound |-> 1, pending |-> <<>>,
     stepped |-> FALSE,
     was |-> [activeIndex |-> 0, currentRound |-> 1, n |-> 0],
     marked |-> NoActive, shown |-> NoActive]

\* the tracker of a viewer when it is mounted: no data yet, both queries
\* to be fetched, no message handled
InitialView ==
    [roster |-> <<>>, session |-> [currentRound |-> 0, inCombat |-> FALSE,
                                   currentTurn |-> 0],
     rosterStale |-> TRUE, sessionStale |-> TRUE, handled |-> 0] @@ LegacyView

\* the sockets as a request finds them
SocketsNow ==
    [clients |-> clients, readyState |-> readyState, fault |-> fault,
     inbox |-> inbox]

\* A route that has written the tables: it calls broadcast(events) if there
\* are events and then answers `status`, or the status of its catch block
\* if broadcast() threw.
ObserveAnswer(op, sid, id, n, status, order, events) ==
    /\ req' = [op |-> op, sid |-> sid, id |-> id, n |-> n]
    /\ res' = [status |-> IF events # <<>> /\ BroadcastRaises
                          THEN CatchStatus(op) ELSE status,
               order |-> order]
    /\ sent' = events
    /\ Broadcast(events)
    /\ prev' = [gameSessions |-> gameSessions, combatants |-> combatants,
                sockets |-> SocketsNow]
    /\ UNCHANGED <<clients, readyState, fault, joined>>

\* the same for a route handled in one piece by a caller that is not a
\* followed viewer
Observe(op, sid, id, n, status, order, events) ==
    /\ ObserveAnswer(op, sid, id, n, status, order, events)
    /\ UNCHANGED <<calls, views>>

\* mutation of ConnectInbox: the last broadcast is replayed to a new viewer
ConnectInboxReplay == sent

\* what a viewer has received when its connection is accepted: the
\* connection handler sends nothing
ConnectInbox == <<>>

\* wss.on('connection', (ws) => { clients.add(ws); ... })
Connection(ws) ==
    /\ readyState[ws] = "NEW"
    /\ clients' = ClientsAdd(ws)
    /\ readyState' = [readyState EXCEPT ![ws] = "OPEN"]
    /\ inbox' = [inbox EXCEPT ![ws] = ConnectInbox]
    /\ joined' = [joined EXCEPT ![ws] = nextId]
    /\ UNCHANGED <<gameSessions, combatants, nextId, fault, req, res, sent,
                   prev, hist, calls, views>>

\* The viewer goes away: the closing handshake starts, the 'close' event
\* has not been delivered yet.
SocketCloses(ws) ==
    /\ readyState[ws] = "OPEN"
    /\ readyState' = [readyState EXCEPT ![ws] = "CLOSING"]
    /\ UNCHANGED <<gameSessions, combatants, nextId, clients, fault, inbox,
                   req, res, sent, prev, hist, joined, calls, views>>

\* ws.on('close', () => { clients.delete(ws); })
OnClose(ws) ==
    /\ readyState[ws] = "CLOSING"
    /\ readyState' = [readyState EXCEPT ![ws] = "CLOSED"]
    /\ clients' = ClientsDelete(ws)
    /\ UNCHANGED <<gameSessions, combatants, nextId, fault, inbox,
                   req, res, sent, prev, hist, joined, calls, views>>

\* The transport of an open socket fails: what is sent on it from now on is
\* lost, and the socket will emit 'error'.
TransportFails(ws) ==
    /\ readyState[ws] = "OPEN"
    /\ fault[ws] = "no"
    /\ fault' = [fault EXCEPT ![ws] = "pending"]
    /\ UNCHANGED <<gameSessions, combatants, nextId, clients, readyState, inbox,
                   req, res, sent, prev, hist, joined, calls, views>>

\* mutation of ErrorHandler: the error is logged only
ErrorHandlerLogsOnly(ws) == clients

\* the clients after ws.on('error', (error) => { ...; clients.delete(ws); })
ErrorHandler(ws) == ClientsDelete(ws)

\* The socket emits 'error' and the handler runs; the socket is closing.
OnError(ws) ==
    /\ fault[ws] = "pending"
    /\ readyState[ws] = "OPEN"
    /\ fault' = [fault EXCEPT ![ws] = "handled"]
    /\ readyState' = [readyState EXCEPT ![ws] = "CLOSING"]
    /\ clients' = ErrorHandler(ws)
    /\ UNCHANGED <<gameSessions, combatants, nextId, inbox,
                   req, res, sent, prev, hist, joined, calls, views>>

Ids(list) == [i \in 1..Len(list) |-> list[i].id]

\* hist after a request that is not next-turn and that wrote the session or
\* the roster: a new count starts if the turn index is 0.
HistRestart(removed) ==
    hist' = [round0 |-> gameSessions'[DefaultSession].currentRound,
             calls |-> IF gameSessions'[DefaultSession].currentTurn = 0
                       THEN 0 ELSE -1,
             removed |-> removed]

\* hist after a next-turn that read a roster of n rows
HistAdvance(n) ==
    hist' = IF hist.calls >= 0 /\ hist.calls < n
            THEN [hist EXCEPT !.calls = @ + 1, !.removed = FALSE]
            ELSE IF gameSessions[DefaultSession].currentTurn = 0 /\ n >= 1
            THEN [round0 |-> gameSessions[DefaultSession].currentRound,
                  calls |-> 1, removed |-> FALSE]
            ELSE [round0 |-> 0, calls |-> -1, removed |-> FALSE]

(***************************************************************************)
(* Routes of the server.                                                   *)
(***************************************************************************)
\* insertCombatantSchema.parse: name is required, the numeric columns are
\* optional integers.
ValidCombatantBody(body) == "name" \in DOMAIN body

\* POST /api/sessions/:sessionId/combatants
PostCombatant(sid, body) ==
    /\ nextId <= MaxIds
    /\ IF ValidCombatantBody(body)
       THEN /\ combatants' = Append(combatants, createCombatant(sid, body, nextId))
            /\ nextId' = nextId + 1
            /\ UNCHANGED gameSessions
            /\ Observe("addCombatant", sid, nextId, body, 201, <<>>,
                       <<Event("combatant_added", nextId)>>)
            /\ IF sid = DefaultSession THEN HistRestart(hist.removed)
               ELSE UNCHANGED hist
       ELSE /\ UNCHANGED <<gameSessions, combatants, nextId, hist>>
            /\ Observe("addCombatant", sid, 0, body, 400, <<>>, <<>>)

\* POST /api/sessions/:sessionId/combatants of the earlier routes, over
\* MemStorage
PostCombatantMem(sid, body) ==
    /\ nextId <= MaxIds
    /\ IF ValidCombatantBody(body)
       THEN /\ combatants' = Append(combatants, createCombatantMem(sid, body, nextId))
            /\ nextId' = nextId + 1
            /\ UNCHANGED gameSessions
            /\ Observe("addCombatantMem", sid, nextId, body, 201, <<>>,
                       <<Event("combatant_added", nextId)>>)
            /\ IF sid = DefaultSession THEN HistRestart(hist.removed)
               ELSE UNCHANGED hist
       ELSE /\ UNCHANGED <<gameSessions, combatants, nextId, hist>>
            /\ Observe("addCombatantMem", sid, 0, body, 400, <<>>, <<>>)

\* GET /api/sessions/:sessionId/combatants
GetCombatantsRoute(sid) ==
    \E list \in getCombatants(sid) :
        /\ UNCHANGED <<gameSessions, combatants, nextId, hist>>
        /\ Observe("getCombatants", sid, 0, 0, 200, Ids(list), <<>>)

\* PATCH /api/combatants/:id
PatchCombatant(op, id, n, updates) ==
    IF id \in CombatantIds
    THEN /\ combatants' = updateCombatant(id, updates)
         /\ UNCHANGED <<gameSessions, nextId, hist>>
         /\ Observe(op, Combatant(id).sessionId, id, n, 200, <<>>,
                    <<Event("combatant_updated", id)>>)
    ELSE /\ UNCHANGED <<gameSessions, combatants, nextId, hist>>
         /\ Observe(op, DefaultSession, id, n, 404, <<>>, <<>>)

\* the session of the row `id`, for the record of the request
SessionOf(id) ==
    IF id \in CombatantIds THEN Combatant(id).sessionId ELSE DefaultSession

\* mutation of DeleteSucceeded: result.rowCount >= 0
DeleteSucceededAlways(id) == TRUE

\* deleteCombatant's answer, result.rowCount > 0: a row had that id
DeleteSucceeded(id) == id \in CombatantIds

\* DELETE /api/combatants/:id
DeleteCombatant(id) ==
    IF DeleteSucceeded(id)
    THEN /\ combatants' = deleteCombatant(id)
         /\ UNCHANGED <<gameSessions, nextId>>
         /\ Observe("removeCombatant", SessionOf(id), id, 0, 200, <<>>,
                    <<Event("combatant_removed", id)>>)
         /\ IF SessionOf(id) = DefaultSession THEN HistRestart(TRUE)
            ELSE UNCHANGED hist
    ELSE /\ UNCHANGED <<gameSessions, combatants, nextId, hist>>
         /\ Observe("removeCombatant", DefaultSession, id, 0, 404, <<>>, <<>>)

StartCombatKeepsRound == [inCombat |-> TRUE, currentTurn |-> 0]

\* the columns combat/start writes
StartCombatUpdates == [inCombat |-> TRUE, currentTurn |-> 0, currentRound |-> 1]

\* POST /api/sessions/:sessionId/combat/start
StartCombat(sid) ==
    IF SessionExists(sid)
    THEN /\ gameSessions' = updateGameSession(sid, StartCombatUpdates)
         /\ UNCHANGED <<combatants, nextId>>
         /\ Observe("startCombat", sid, 0, 0, 200, <<>>,
                    <<SessionEvent("combat_started", gameSessions'[sid])>>)
         /\ HistRestart(FALSE)
    ELSE /\ UNCHANGED <<gameSessions, combatants, nextId, hist>>
         /\ Observe("startCombat", sid, 0, 0, 404, <<>>, <<>>)

NextTurnIndexOffByOne(turn, n) == IF turn + 1 > n THEN 0 ELSE turn + 1

NextRoundNumberStuck(turn, round, n) == round

\* The turn index and the round after one advance over a roster of n rows.
NextTurnIndex(turn, n) == IF turn + 1 >= n THEN 0 ELSE turn + 1

NextRoundNumber(turn, round, n) == IF turn + 1 >= n THEN round + 1 ELSE round

\* combatants[nextTurn] of a JavaScript array: undefined past its end
ActiveId(list, turn) ==
    IF turn >= 0 /\ turn < Len(list) THEN list[turn + 1].id ELSE NoActive

\* { type: 'turn_changed', data: { session, activeCombatant } }
TurnChanged(session, active) ==
    [type |-> "turn_changed", id |-> active, session |-> session]

\* POST /api/sessions/:sessionId/combat/next-turn
NextTurn(sid) ==
    \E list \in getCombatants(sid) :
        IF SessionExists(sid)
        THEN LET session == getGameSession(sid)
                 nextTurn == NextTurnIndex(session.currentTurn, Len(list))
                 nextRound == NextRoundNumber(session.currentTurn,
                                              session.currentRound, Len(list))
             IN /\ nextRound <= MaxRound
                /\ gameSessions' = updateGameSession(sid,
                       [currentTurn |-> nextTurn, currentRound |-> nextRound])
                /\ UNCHANGED <<combatants, nextId>>
                /\ Observe("nextTurn", sid, 0, 0, 200, <<>>,
                           <<TurnChanged(gameSessions'[sid],
                                         ActiveId(list, nextTurn))>>)
                /\ HistAdvance(Len(list))
        ELSE /\ UNCHANGED <<gameSessions, combatants, nextId, hist>>
             /\ Observe("nextTurn", sid, 0, 0, 404, <<>>, <<>>)

(***************************************************************************)
(* The next-turn route as the event loop runs it: the handler is suspended *)
(* at each await (getCombatants, getGameSession, updateGameSession), and   *)
(* other requests are served in between.  No lock is taken.                *)
(***************************************************************************)
Calls == {"c1", "c2"}

\* a session row not read yet
NoRow == [currentRound |-> 0, inCombat |-> FALSE, currentTurn |-> 0]

IdleCall ==
    [pc |-> "idle", list |-> <<>>, read |-> NoRow, before |-> NoRow,
     updated |-> NoRow, events |-> 0]

\* mutation of WriteBasis: the update is computed from the row as stored
\* when it is written (UPDATE ... SET current_turn = current_turn + 1)
WriteBasisStored(c) == gameSessions[DefaultSession]

\* the session the handler computes nextTurn and nextRound from: the one
\* it read
WriteBasis(c) == calls[c].read

\* const combatants = await storage.getCombatants(req.params.sessionId)
NextTurnReadRoster(c) ==
    /\ calls[c].pc = "idle"
    /\ \E list \in getCombatants(DefaultSession) :
           calls' = [calls EXCEPT ![c] = [IdleCall EXCEPT !.pc = "roster",
                                                          !.list = list]]
    /\ UNCHANGED <<gameSessions, combatants, nextId, clients, readyState, fault,
                   inbox, req, res, sent, prev, hist, joined, views>>

\* const session = await storage.getGameSession(req.params.sessionId)
NextTurnReadSession(c) ==
    /\ calls[c].pc = "roster"
    /\ calls' = [calls EXCEPT ![c].pc = "session",
                              ![c].read = getGameSession(DefaultSession)]
    /\ UNCHANGED <<gameSessions, combatants, nextId, clients, readyState, fault,
                   inbox, req, res, sent, prev, hist, joined, views>>

\* const updatedSession = await storage.updateGameSession(...)
NextTurnWrite(c) ==
    /\ calls[c].pc = "session"
    /\ LET basis == WriteBasis(c)
           n == Len(calls[c].list)
           nextTurn == NextTurnIndex(basis.currentTurn, n)
           nextRound == NextRoundNumber(basis.currentTurn, basis.currentRound, n)
       IN  /\ nextRound <= MaxRaceRound
           /\ gameSessions' = updateGameSession(DefaultSession,
                  [currentTurn |-> nextTurn, currentRound |-> nextRound])
           /\ calls' = [calls EXCEPT ![c].pc = "written",
                                     ![c].before = gameSessions[DefaultSession],
                                     ![c].updated = gameSessions'[DefaultSession]]
    /\ UNCHANGED <<combatants, nextId, clients, readyState, fault,
                   inbox, req, res, sent, prev, hist, joined, views>>

\* broadcast({ type: 'turn_changed', ... }); res.json(updatedSession)
NextTurnAnswer(c) ==
    /\ calls[c].pc = "written"
    /\ calls' = [calls EXCEPT ![c].pc = "done", ![c].events = 1]
    /\ ObserveAnswer("nextTurn", DefaultSession, 0, 0, 200, <<>>,
           <<TurnChanged(calls[c].updated,
                         ActiveId(calls[c].list, calls[c].updated.currentTurn))>>)
    /\ UNCHANGED <<gameSessions, combatants, nextId, hist, views>>

EndCombatResetsRound == [inCombat |-> FALSE, currentTurn |-> 0, currentRound |-> 1]

\* the columns combat/end writes
EndCombatUpdates == [inCombat |-> FALSE, currentTurn |-> 0]

\* POST /api/sessions/:sessionId/combat/end
EndCombat(sid) ==
    IF SessionExists(sid)
    THEN /\ gameSessions' = updateGameSession(sid, EndCombatUpdates)
         /\ UNCHANGED <<combatants, nextId>>
         /\ Observe("endCombat", sid, 0, 0, 200, <<>>,
                    <<SessionEvent("combat_ended", gameSessions'[sid])>>)
         /\ HistRestart(FALSE)
    ELSE /\ UNCHANGED <<gameSessions, combatants, nextId, hist>>
         /\ Observe("endCombat", sid, 0, 0, 404, <<>>, <<>>)

\* PATCH /api/game-sessions/:id: the body goes to the UPDATE as it came
PatchGameSession(sid, body) ==
    IF SessionExists(sid)
    THEN /\ gameSessions' = updateGameSession(sid, body)
         /\ UNCHANGED <<combatants, nextId>>
         /\ Observe("patchSession", sid, 0, 0, 200, <<>>,
                    <<SessionEvent("session_updated", gameSessions'[sid])>>)
         /\ HistRestart(FALSE)
    ELSE /\ UNCHANGED <<gameSessions, combatants, nextId, hist>>
         /\ Observe("patchSession", sid, 0, 0, 404, <<>>, <<>>)

\* the id of the session POST /api/game-sessions creates (gen_random_uuid())
CreatedSession == "created-session"

\* INSERT INTO game_sessions: a column the body does not name takes its
\* default
createGameSession(body) ==
    [currentRound |-> IF "currentRound" \in DOMAIN body THEN body.currentRound
                      ELSE DefaultRound,
     inCombat |-> IF "inCombat" \in DOMAIN body THEN body.inCombat ELSE FALSE,
     currentTurn |-> IF "currentTurn" \in DOMAIN body THEN body.currentTurn
                     ELSE DefaultTurn]

\* POST /api/game-sessions: insertGameSessionSchema requires the name; the
\* route does not call broadcast()
PostGameSession(body) ==
    /\ ~SessionExists(CreatedSession)
    /\ IF "name" \in DOMAIN body
       THEN /\ gameSessions' =
                  [s \in DOMAIN gameSessions \cup {CreatedSession} |->
                      IF s = CreatedSession THEN createGameSession(body)
                      ELSE gameSessions[s]]
            /\ UNCHANGED <<combatants, nextId, hist>>
            /\ Observe("createSession", CreatedSession, 0, body, 201, <<>>, <<>>)
       ELSE /\ UNCHANGED <<gameSessions, combatants, nextId, hist>>
            /\ Observe("createSession", CreatedSession, 0, body, 400, <<>>, <<>>)

(***************************************************************************)
(* Handlers of EnhancedInitiativeTracker.  The tracker always addresses    *)
(* the session "default-session".                                          *)
(***************************************************************************)
\* The add dialog: each number field holds parseInt(value) || default.
NewCombatant(name, tInit, tAC, tCur, tMax) ==
    [name |-> name,
     initiative |-> ParseIntOr(tInit, DefaultInitiative),
     armorClass |-> ParseIntOr(tAC, DefaultArmorClass),
     currentHP |-> ParseIntOr(tCur, DefaultCurrentHP),
     maxHP |-> ParseIntOr(tMax, DefaultMaxHP)]

\* addCombatant(): nothing is sent for a name that trims to nothing
addCombatant(newCombatant) ==
    IF Trim(newCombatant.name) = <<>>
    THEN /\ nextId <= MaxIds
         /\ UNCHANGED <<gameSessions, combatants, nextId, hist>>
         /\ Observe("addCombatant", DefaultSession, 0,
                    [name |-> newCombatant.name], 0, <<>>, <<>>)
    ELSE PostCombatant(DefaultSession, newCombatant)

CompareAscending(a, b) == a.initiative - b.initiative

\* the comparator (a, b) => b.initiative - a.initiative
Compare(a, b) == b.initiative - a.initiative

\* Array.prototype.sort is stable: an element goes before the first element
\* the comparator puts after it, and behind everything else.
RECURSIVE InsertSorted(_, _)
InsertSorted(sorted, c) ==
    IF sorted = <<>> THEN <<c>>
    ELSE IF Compare(c, Head(sorted)) < 0 THEN <<c>> \o sorted
    ELSE <<Head(sorted)>> \o InsertSorted(Tail(sorted), c)

RECURSIVE SortFrom(_, _)
SortFrom(sorted, rest) ==
    IF rest = <<>> THEN sorted
    ELSE SortFrom(InsertSorted(sorted, Head(rest)), Tail(rest))

\* [...combatants].sort((a, b) => b.initiative - a.initiative)
sortedCombatants(list) == SortFrom(<<>>, list)

\* sortedCombatants[gameSession?.currentTurn || 0], undefined past the end
activeCombatant(list, session) ==
    ActiveId(sortedCombatants(list), session.currentTurn)

\* Math.max(0, Math.min(combatant.maxHP, newHP))
ClampHP(maxHP, newHP) == Max(MinHP, Min(maxHP, newHP))

\* updateHP(combatant, newHP), combatant being a row of the fetched roster
updateHP(id, newHP) ==
    PatchCombatant("updateHP", id, newHP,
                      [currentHP |-> ClampHP(Combatant(id).maxHP, newHP)])

\* Math.max(1, newAC)
ClampAC(newAC) == Max(MinArmorClass, newAC)

\* updateAC(combatant, newAC)
updateAC(id, newAC) ==
    PatchCombatant("updateAC", id, newAC, [armorClass |-> ClampAC(newAC)])

\* A status effect as handleAddStatus builds it: { name }
StatusEffect(name) == [name |-> name]

\* mutation of WithEffect: an effect already carried is not added again
WithEffectUnique(currentEffects, effect) ==
    IF \E i \in 1..Len(currentEffects) : currentEffects[i] = effect
    THEN currentEffects
    ELSE Append(currentEffects, effect)

\* [...currentEffects, effect]
WithEffect(currentEffects, effect) == Append(currentEffects, effect)

\* addStatusEffect(combatant, effect)
addStatusEffect(id, effect) ==
    PatchCombatant("addStatusEffect", id, effect,
        [statusEffects |-> WithEffect(Combatant(id).statusEffects, effect)])

\* mutation of WithoutIndex: currentEffects.splice(effectIndex, 1), where a
\* negative index counts from the end
WithoutIndexSplice(currentEffects, effectIndex) ==
    LET len == Len(currentEffects)
        start == IF effectIndex < 0 THEN Max(len + effectIndex, 0)
                 ELSE Min(effectIndex, len)
    IN  SubSeq(currentEffects, 1, start) \o SubSeq(currentEffects, start + 2, len)

\* the entries of currentEffects from the 0-based position index on whose
\* position is not effectIndex
RECURSIVE FilterFrom(_, _, _)
FilterFrom(currentEffects, index, effectIndex) ==
    IF index >= Len(currentEffects) THEN <<>>
    ELSE (IF index # effectIndex THEN <<currentEffects[index + 1]>> ELSE <<>>)
             \o FilterFrom(currentEffects, index + 1, effectIndex)

\* currentEffects.filter((_, index) => index !== effectIndex)
WithoutIndex(currentEffects, effectIndex) ==
    FilterFrom(currentEffects, 0, effectIndex)

\* removeStatusEffect(combatant, effectIndex)
removeStatusEffect(id, effectIndex) ==
    PatchCombatant("removeStatusEffect", id, effectIndex,
        [statusEffects |->
            WithoutIndex(Combatant(id).statusEffects, effectIndex)])

(***************************************************************************)
(* The tracker of a viewer.  Its roster and its session are the data of    *)
(* two queries; a query that has been invalidated is fetched again.  The   *)
(* viewers are named after their sockets.                                  *)
(***************************************************************************)
CachedIds(v) == {views[v].roster[i].id : i \in 1..Len(views[v].roster)}

\* the combatant `id` as the tracker of v holds it
Cached(v, id) ==
    CHOOSE c \in {views[v].roster[i] : i \in 1..Len(views[v].roster)} : c.id = id

\* queryFn of ['/api/sessions', sessionId, 'combatants']
FetchCombatants(v) ==
    /\ views[v].rosterStale
    /\ \E list \in getCombatants(DefaultSession) :
           views' = [views EXCEPT ![v].roster = list, ![v].rosterStale = FALSE]
    /\ UNCHANGED <<gameSessions, combatants, nextId, clients, readyState, fault,
                   inbox, req, res, sent, prev, hist, joined, calls>>

\* queryFn of ['/api/game-sessions/active']
FetchSession(v) ==
    /\ views[v].sessionStale
    /\ views' = [views EXCEPT ![v].session = getGameSession(DefaultSession),
                              ![v].sessionStale = FALSE]
    /\ UNCHANGED <<gameSessions, combatants, nextId, clients, readyState, fault,
                   inbox, req, res, sent, prev, hist, joined, calls>>

\* the message types after which the tracker invalidates the roster query,
\* and those after which it invalidates the session query
RosterEvents == {"combatant_added", "combatant_updated", "combatant_removed"}

CombatEvents == {"combat_started", "combat_ended", "turn_changed"}

\* useEffect on lastMessage: the next message of the socket is looked at
HandleMessage(v) ==
    /\ views[v].handled < Len(inbox[v])
    /\ LET lastMessage == inbox[v][views[v].handled + 1]
       IN  views' = [views EXCEPT
               ![v].handled = @ + 1,
               ![v].rosterStale = @ \/ lastMessage.type \in RosterEvents,
               ![v].sessionStale = @ \/ lastMessage.type \in CombatEvents]
    /\ UNCHANGED <<gameSessions, combatants, nextId, clients, readyState, fault,
                   inbox, req, res, sent, prev, hist, joined, calls>>

\* updateCombatantMutation of the tracker of v: PATCH /api/combatants/:id,
\* and on success the roster query is invalidated
UpdateCombatantMutation(v, op, id, n, updates) ==
    /\ IF id \in CombatantIds
       THEN /\ combatants' = updateCombatant(id, updates)
            /\ ObserveAnswer(op, Combatant(id).sessionId, id, n, 200, <<>>,
                             <<Event("combatant_updated", id)>>)
            /\ views' = [views EXCEPT ![v].rosterStale = TRUE]
       ELSE /\ UNCHANGED <<combatants, views>>
            /\ ObserveAnswer(op, DefaultSession, id, n, 404, <<>>, <<>>)
    /\ UNCHANGED <<gameSessions, nextId, hist, calls>>

\* addStatusEffect(combatant, effect) on the combatant as v's tracker
\* shows it
ViewerAddStatusEffect(v, id, effect) ==
    /\ id \in CachedIds(v)
    /\ UpdateCombatantMutation(v, "addStatusEffect", id, effect,
           [statusEffects |-> WithEffect(Cached(v, id).statusEffects, effect)])

\* removeStatusEffect(combatant, effectIndex) on the combatant as v's
\* tracker shows it
ViewerRemoveStatusEffect(v, id, effectIndex) ==
    /\ id \in CachedIds(v)
    /\ UpdateCombatantMutation(v, "removeStatusEffect", id, effectIndex,
           [statusEffects |->
               WithoutIndex(Cached(v, id).statusEffects, effectIndex)])

(***************************************************************************)
(* The earlier InitiativeTracker: the turn is kept in the component        *)
(* (activeIndex, currentRound) and nextTurn() marks the combatants with     *)
(* PATCH requests, sent one after the other.                               *)
(***************************************************************************)
\* nextIndex of nextTurn(); the index stays for an empty roster
LegacyNextIndex(activeIndex, n) ==
    IF n = 0 THEN activeIndex
    ELSE IF activeIndex + 1 >= n THEN 0 ELSE activeIndex + 1

\* nextRound of nextTurn(); the round stays for an empty roster
LegacyNextRound(activeIndex, currentRound, n) ==
    IF n = 0 THEN currentRound
    ELSE IF activeIndex + 1 >= n THEN currentRound + 1 ELSE currentRound

\* the updateCombatantMutation.mutate calls of nextTurn(), in order
LegacyMutations(list, activeIndex) ==
    LET nextIndex == LegacyNextIndex(activeIndex, Len(list))
    IN  IF Len(list) = 0 THEN <<>>
        ELSE (IF ActiveId(list, activeIndex) # NoActive
              THEN <<[id |-> ActiveId(list, activeIndex), isActive |-> FALSE]>>
              ELSE <<>>)
             \o (IF ActiveId(list, nextIndex) # NoActive
                 THEN <<[id |-> ActiveId(list, nextIndex), isActive |-> TRUE]>>
                 ELSE <<>>)

\* the combatant nextTurn() marks isActive: true
LegacyMarked(list, activeIndex) ==
    IF Len(list) = 0 THEN NoActive
    ELSE ActiveId(list, LegacyNextIndex(activeIndex, Len(list)))

\* sortedCombatants[activeIndex], whose turn the tracker says it is
LegacyShown(list, activeIndex) ==
    ActiveId(sortedCombatants(list), activeIndex)

\* nextTurn() of the InitiativeTracker of v, the PATCH requests of its last
\* call having been sent
LegacyNextTurn(v) ==
    LET list == views[v].roster
        activeIndex == views[v].activeIndex
        currentRound == views[v].currentRound
        nextIndex == LegacyNextIndex(activeIndex, Len(list))
        nextRound == LegacyNextRound(activeIndex, currentRound, Len(list))
    IN  /\ views[v].pending = <<>>
        /\ nextRound <= MaxLegacyRound
        /\ views' = [views EXCEPT
               ![v].activeIndex = nextIndex,
               ![v].currentRound = nextRound,
               ![v].pending = LegacyMutations(list, activeIndex),
               ![v].stepped = TRUE,
               ![v].was = [activeIndex |-> activeIndex,
                           currentRound |-> currentRound, n |-> Len(list)],
               ![v].marked = LegacyMarked(list, activeIndex),
               ![v].shown = LegacyShown(list, nextIndex)]
        /\ UNCHANGED <<gameSessions, combatants, nextId, clients, readyState,
                       fault, inbox, req, res, sent, prev, hist, joined, calls>>

\* mutationFn and onSuccess of updateCombatantMutation for the first PATCH
\* the tracker of v has yet to send
LegacySendPatch(v) ==
    /\ views[v].pending # <<>>
    /\ LET m == Head(views[v].pending)
       IN  IF m.id \in CombatantIds
           THEN /\ combatants' = updateCombatant(m.id, [isActive |-> m.isActive])
                /\ ObserveAnswer("updateCombatant", Combatant(m.id).sessionId,
                                 m.id, 0, 200, <<>>,
                                 <<Event("combatant_updated", m.id)>>)
                /\ views' = [views EXCEPT ![v].pending = Tail(@),
                                          ![v].rosterStale = TRUE]
           ELSE /\ UNCHANGED combatants
                /\ ObserveAnswer("updateCombatant", DefaultSession, m.id, 0,
                                 404, <<>>, <<>>)
                /\ views' = [views EXCEPT ![v].pending = Tail(@)]
    /\ UNCHANGED <<gameSessions, nextId, hist, calls>>

(***************************************************************************)
(* Initial state: the default session of initializeSampleData, no          *)
(* combatant.                                                              *)
(***************************************************************************)
Init ==
    /\ gameSessions = [s \in {DefaultSession} |->
           [currentRound |-> DefaultRound, inCombat |-> FALSE,
            currentTurn |-> DefaultTurn]]
    /\ combatants = <<>>
    /\ nextId = 1
    /\ req = [op |-> "none", sid |-> DefaultSession, id |-> 0, n |-> 0]
    /\ res = [status |-> 0, order |-> <<>>]
    /\ sent = <<>>
    /\ clients = <<>>
    /\ readyState = [ws \in Sockets |-> "NEW"]
    /\ fault = [ws \in Sockets |-> "no"]
    /\ inbox = [ws \in Sockets |-> <<>>]
    /\ prev = [gameSessions |-> gameSessions, combatants |-> combatants,
               sockets |-> SocketsNow]
    /\ hist = [round0 |-> DefaultRound, calls |-> 0, removed |-> FALSE]
    /\ joined = [ws \in Sockets |-> 0]
    /\ calls = [c \in Calls |-> IdleCall]
    /\ views = [ws \in Sockets |-> InitialView]

TypedInits == {NaN} \cup {Typed(n) : n \in -1..MaxInit}
TypedStats == {NaN} \cup {Typed(n) : n \in (0 - MaxStat)..MaxStat}
\* ids a request can name: the rows there are, and one id that names none
RequestIds == CombatantIds \cup {nextId}

(***************************************************************************)
(* Spec: the turn-order engine.  Combatants are added through the dialog   *)
(* with any name and initiative and the default AC and HP.                 *)
(***************************************************************************)
Next ==
    \/ \E name \in Names, t \in TypedInits :
           addCombatant(NewCombatant(name, t, NaN, NaN, NaN))
    \/ \E id \in RequestIds : DeleteCombatant(id)
    \/ GetCombatantsRoute(DefaultSession)
    \/ StartCombat(DefaultSession)
    \/ NextTurn(DefaultSession)
    \/ EndCombat(DefaultSession)

Spec == Init /\ [][Next]_vars


(***************************************************************************)
(* SpecApi: the turn-order engine and the session PATCH route, which       *)
(* takes any body.                                                         *)
(***************************************************************************)
SessionPatches ==
    {[currentRound |-> r] : r \in 0..MaxRound}
        \cup {[currentTurn |-> t] : t \in (0 - 2)..MaxIds}
        \cup {[inCombat |-> b] : b \in BOOLEAN}

NextApi ==
    \/ Next
    \/ \E sid \in SessionIds, body \in SessionPatches : PatchGameSession(sid, body)
    \/ GetCombatantsRoute(MissingSession)
    \/ StartCombat(MissingSession)
    \/ NextTurn(MissingSession)
    \/ EndCombat(MissingSession)

SpecApi == Init /\ [][NextApi]_vars

(***************************************************************************)
(* SpecStats: HP and armor class.  Combatants are added through the dialog *)
(* with any AC, current HP and max HP; their HP and AC are then edited.    *)
(***************************************************************************)
StatInputs == (0 - MaxStat - 1)..(MaxStat + 1)

NextStats ==
    \/ /\ Len(combatants) < MaxStatRows
       /\ \E tAC, tCur, tMax \in TypedStats :
              addCombatant(NewCombatant(OgreName, NaN, tAC, tCur, tMax))
    \/ \E id \in CombatantIds, n \in StatInputs : updateHP(id, n)
    \/ \E id \in CombatantIds, n \in StatInputs : updateAC(id, n)

SpecStats == Init /\ [][NextStats]_vars

(***************************************************************************)
(* SpecEffects: status effects.  Effects are added to and removed from the *)
(* combatants of the roster; a removal may name any index, also one that   *)
(* is not a position of the list.                                          *)
(***************************************************************************)
EffectNames == {"Poisoned", "Stunned"}
EffectIndexes == (0 - 1)..MaxEffects

NextEffects ==
    \/ /\ Len(combatants) < MaxEffectRows
       /\ addCombatant(NewCombatant(OgreName, NaN, NaN, NaN, NaN))
    \/ \E id \in CombatantIds, name \in EffectNames :
           /\ Len(Combatant(id).statusEffects) < MaxEffects
           /\ addStatusEffect(id, StatusEffect(name))
    \/ \E id \in CombatantIds, i \in EffectIndexes : removeStatusEffect(id, i)

SpecEffects == Init /\ [][NextEffects]_vars

(***************************************************************************)
(* SpecCreate: creation of combatants.  The POST route is sent bodies that *)
(* name any subset of the columns, over the DatabaseStorage and over the   *)
(* earlier MemStorage; the dialog is submitted with any name.              *)
(***************************************************************************)
NumericColumns == {"initiative", "armorClass", "currentHP", "maxHP"}
SuppliedNumbers == {0, MaxStat}

\* the body that gives the columns of v the values of v, and name if given
BodyOf(names, v, flags) ==
    [f \in DOMAIN v \cup {"name" : n \in names} \cup {"isActive" : b \in flags} |->
        IF f = "name" THEN CHOOSE n \in names : TRUE
        ELSE IF f = "isActive" THEN CHOOSE b \in flags : TRUE
        ELSE v[f]]

RawBodies ==
    {BodyOf(names, v, flags) :
        names \in {{}} \cup {{n} : n \in Names},
        v \in UNION {[cols -> SuppliedNumbers] : cols \in SUBSET NumericColumns},
        flags \in {{}, {TRUE}}}

NextCreate ==
    \/ /\ Len(combatants) < MaxCreateRows
       /\ \E body \in RawBodies : PostCombatant(DefaultSession, body)
    \/ /\ Len(combatants) < MaxCreateRows
       /\ \E body \in RawBodies : PostCombatantMem(DefaultSession, body)
    \/ /\ Len(combatants) < MaxCreateRows
       /\ \E name \in Names : addCombatant(NewCombatant(name, NaN, NaN, NaN, NaN))
    \/ \E id \in RequestIds : DeleteCombatant(id)

SpecCreate == Init /\ [][NextCreate]_vars

(***************************************************************************)
(* SpecAddress: requests that name a session or a combatant.  Every        *)
(* combat route is asked about the default session and about a session     *)
(* that does not exist; PATCH and DELETE are asked about every combatant   *)
(* there is and about an id that names none.                               *)
(***************************************************************************)
CombatantPatches == {[currentHP |-> 0]}

NextAddress ==
    \/ /\ Len(combatants) < MaxAddressRows
       /\ addCombatant(NewCombatant(OgreName, NaN, NaN, NaN, NaN))
    \/ \E id \in RequestIds, body \in CombatantPatches :
           PatchCombatant("updateCombatant", id, body, body)
    \/ \E id \in RequestIds : DeleteCombatant(id)
    \/ \E sid \in SessionIds : StartCombat(sid)
    \/ \E sid \in SessionIds : NextTurn(sid)
    \/ \E sid \in SessionIds : EndCombat(sid)

SpecAddress == Init /\ [][NextAddress]_vars

(***************************************************************************)
(* SpecViewers: the broadcast channel.  Viewers connect, go away and fail  *)
(* while combatants are added.                                             *)
(***************************************************************************)
NextViewers ==
    \/ \E ws \in Sockets : Connection(ws)
    \/ \E ws \in Sockets : SocketCloses(ws)
    \/ \E ws \in Sockets : OnClose(ws)
    \/ \E ws \in Sockets : TransportFails(ws)
    \/ \E ws \in Sockets : OnError(ws)
    \/ addCombatant(NewCombatant(OgreName, NaN, NaN, NaN, NaN))

SpecViewers == Init /\ [][NextViewers]_vars

(***************************************************************************)
(* SpecEvents: every route that writes the roster or a session, each asked *)
(* about what exists and about what does not.                              *)
(***************************************************************************)
EventSessionPatches ==
    {[inCombat |-> TRUE], [currentTurn |-> 1], [currentRound |-> MaxRound]}
NewSessionBodies == {[name |-> OgreName], [inCombat |-> TRUE]}

NextEvents ==
    \/ /\ Len(combatants) < MaxEventRows
       /\ \E name \in Names : addCombatant(NewCombatant(name, NaN, NaN, NaN, NaN))
    \/ \E id \in RequestIds, body \in CombatantPatches :
           PatchCombatant("updateCombatant", id, body, body)
    \/ \E id \in RequestIds : DeleteCombatant(id)
    \/ \E sid \in SessionIds : StartCombat(sid)
    \/ \E sid \in SessionIds : NextTurn(sid)
    \/ \E sid \in SessionIds : EndCombat(sid)
    \/ \E sid \in SessionIds, body \in EventSessionPatches :
           PatchGameSession(sid, body)
    \/ \E body \in NewSessionBodies : PostGameSession(body)

SpecEvents == Init /\ [][NextEvents]_vars

(***************************************************************************)
(* SpecCache: two viewers put status effects on one combatant and take     *)
(* them off, each from the roster its tracker holds; a tracker fetches the *)
(* roster when it is mounted and again once its own mutation has           *)
(* invalidated it.  No message of the server has reached a tracker yet.    *)
(***************************************************************************)
NextCache ==
    \/ /\ Len(combatants) < MaxCacheRows
       /\ addCombatant(NewCombatant(OgreName, NaN, NaN, NaN, NaN))
    \/ \E v \in Sockets : FetchCombatants(v)
    \/ \E v \in Sockets, id \in CombatantIds, name \in EffectNames :
           /\ id \in CachedIds(v)
           /\ Len(Cached(v, id).statusEffects) < MaxCacheEffects
           /\ ViewerAddStatusEffect(v, id, StatusEffect(name))
    \/ \E v \in Sockets, id \in CombatantIds, i \in 0..1 :
           ViewerRemoveStatusEffect(v, id, i)

SpecCache == Init /\ [][NextCache]_vars

(***************************************************************************)
(* SpecSync: one combatant has been added, two viewers are connected and   *)
(* their trackers mounted while the roster and the session change.  A tracker looks at every message    *)
(* of its socket and fetches a query again once it has been invalidated;   *)
(* a handful of changes is made, then none.                                *)
(***************************************************************************)
InitSync ==
    /\ gameSessions = [s \in {DefaultSession} |->
           [currentRound |-> DefaultRound, inCombat |-> FALSE,
            currentTurn |-> DefaultTurn]]
    /\ combatants = <<createCombatant(DefaultSession,
                          NewCombatant(OgreName, NaN, NaN, NaN, NaN), 1)>>
    /\ nextId = 2
    /\ req = [op |-> "none", sid |-> DefaultSession, id |-> 0, n |-> 0]
    /\ res = [status |-> 0, order |-> <<>>]
    /\ sent = <<>>
    /\ clients = <<"ws1", "ws2">>
    /\ readyState = [ws \in Sockets |-> "OPEN"]
    /\ fault = [ws \in Sockets |-> "no"]
    /\ inbox = [ws \in Sockets |-> <<>>]
    /\ prev = [gameSessions |-> gameSessions, combatants |-> combatants,
               sockets |-> SocketsNow]
    /\ hist = [round0 |-> DefaultRound, calls |-> 0, removed |-> FALSE]
    /\ joined = [ws \in Sockets |-> 1]
    /\ calls = [c \in Calls |-> IdleCall]
    /\ views = [ws \in Sockets |-> InitialView]

\* no socket has been sent MaxSyncEvents messages yet
FewMessages == \A ws \in Sockets : Len(inbox[ws]) < MaxSyncEvents

SyncSessionPatches == {[currentRound |-> MaxSyncRound]}

NextSync ==
    \/ \E id \in CombatantIds, updates \in CombatantPatches :
           FewMessages /\ PatchCombatant("updateCombatant", id, 0, updates)
    \/ \E id \in CombatantIds : FewMessages /\ DeleteCombatant(id)
    \/ FewMessages /\ StartCombat(DefaultSession)
    \/ /\ FewMessages
       /\ gameSessions[DefaultSession].currentRound < MaxSyncRound
       /\ NextTurn(DefaultSession)
    \/ FewMessages /\ EndCombat(DefaultSession)
    \/ \E body \in SyncSessionPatches :
           FewMessages /\ PatchGameSession(DefaultSession, body)
    \/ \E v \in Sockets : HandleMessage(v)
    \/ \E v \in Sockets : FetchCombatants(v)
    \/ \E v \in Sockets : FetchSession(v)

\* a message received is looked at, an invalidated query is fetched again
SyncFairness ==
    \A v \in Sockets :
        /\ WF_views(HandleMessage(v))
        /\ WF_views(FetchCombatants(v))
        /\ WF_views(FetchSession(v))

SpecSync == InitSync /\ [][NextSync]_vars /\ SyncFairness

(***************************************************************************)
(* SpecLegacy: the earlier InitiativeTracker.  Combatants are added and    *)
(* removed; a viewer's tracker fetches the roster, advances the turn on    *)
(* the roster it holds and sends its PATCH requests.                       *)
(***************************************************************************)
LegacyInits == {NaN, Typed(1)}
\* the viewer whose tracker is followed
LegacyViewers == {"ws1"}

NextLegacy ==
    \/ \E t \in LegacyInits :
           /\ Len(combatants) < MaxLegacyRows
           /\ addCombatant(NewCombatant(OgreName, t, NaN, NaN, NaN))
    \/ \E id \in CombatantIds : DeleteCombatant(id)
    \/ \E v \in LegacyViewers : FetchCombatants(v)
    \/ \E v \in LegacyViewers : LegacyNextTurn(v)
    \/ \E v \in LegacyViewers : LegacySendPatch(v)

SpecLegacy == Init /\ [][NextLegacy]_vars

(***************************************************************************)
(* SpecRace: overlapping requests.  Two next-turn requests are in flight,  *)
(* interleaved at their awaits with each other and with start, end and     *)
(* add.                                                                    *)
(***************************************************************************)
NextRace ==
    \/ /\ Len(combatants) < MaxRaceRows
       /\ addCombatant(NewCombatant(OgreName, NaN, NaN, NaN, NaN))
    \/ StartCombat(DefaultSession)
    \/ EndCombat(DefaultSession)
    \/ \E c \in Calls : NextTurnReadRoster(c)
    \/ \E c \in Calls : NextTurnReadSession(c)
    \/ \E c \in Calls : NextTurnWrite(c)
    \/ \E c \in Calls : NextTurnAnswer(c)

SpecRace == Init /\ [][NextRace]_vars

(***************************************************************************)
(* Vocabulary of the properties.                                           *)
(***************************************************************************)
Session == gameSessions[DefaultSession]
Roster == SessionRows(DefaultSession)
RosterSize == Len(Roster)
PrevSession == prev.gameSessions[DefaultSession]
PrevRoster == SelectSeq(prev.combatants, LAMBDA c : c.sessionId = DefaultSession)

\* the last request was `op` on the default session and it succeeded
Handled(op) == req.op = op /\ req.sid = DefaultSession /\ res.status \in {200, 201}

DistinctInitiatives(rows) ==
    \A i, j \in 1..Len(rows) : rows[i].initiative = rows[j].initiative => i = j

\* how many rows of the roster act before the combatant `id`
Rank(id) ==
    Cardinality({i \in 1..RosterSize :
        Roster[i].initiative > Combatant(id).initiative})

(***************************************************************************)
(* C1: on a roster of N >= 1 rows that does not change, starting from      *)
(* currentTurn = 0, k < N next-turn calls leave currentTurn = k and the    *)
(* round as it was, and N calls bring currentTurn back to 0 with the round *)
(* one higher.                                                             *)
(***************************************************************************)
AdvanceCycle ==
    hist.calls >= 0 /\ RosterSize >= 1 =>
        /\ hist.calls <= RosterSize
        /\ hist.calls < RosterSize =>
               /\ Session.currentTurn = hist.calls
               /\ Session.currentRound = hist.round0
        /\ hist.calls = RosterSize =>
               /\ Session.currentTurn = 0
               /\ Session.currentRound = hist.round0 + 1

AdvanceCycleWitness ==
    /\ Handled("nextTurn")
    /\ RosterSize = 3
    /\ hist.calls = 3
    /\ Session.currentTurn = 0
    /\ Session.currentRound = hist.round0 + 1

(***************************************************************************)
(* C2: a successful combat/start leaves inCombat = true, currentTurn = 0   *)
(* and currentRound = 1, whatever the session was before.                  *)
(***************************************************************************)
StartCombatResets ==
    Handled("startCombat") =>
        /\ Session.inCombat
        /\ Session.currentTurn = 0
        /\ Session.currentRound = 1

StartCombatResetsWitness ==
    /\ Handled("startCombat")
    /\ PrevSession.inCombat
    /\ PrevSession.currentRound >= 2
    /\ PrevSession.currentTurn >= 1
    /\ RosterSize >= 2
    /\ Session.currentRound = 1

(***************************************************************************)
(* C3: a successful combat/end leaves inCombat = false and currentTurn = 0 *)
(* and does not touch currentRound.                                        *)
(***************************************************************************)
EndCombatKeepsRound ==
    Handled("endCombat") =>
        /\ ~Session.inCombat
        /\ Session.currentTurn = 0
        /\ Session.currentRound = PrevSession.currentRound

EndCombatKeepsRoundWitness ==
    /\ Handled("endCombat")
    /\ PrevSession.inCombat
    /\ PrevSession.currentTurn >= 1
    /\ Session.currentRound >= 2

(***************************************************************************)
(* C4: with distinct initiatives, the combatant shown active after         *)
(* combat/start is the one of highest initiative; each next-turn moves to  *)
(* the combatant of next lower initiative and keeps the round, except from *)
(* the lowest, where it moves to the highest and the round goes up by one; *)
(* k calls after the turn index was 0 the active combatant is the one with *)
(* exactly k combatants above it.  The combatant named in turn_changed is  *)
(* the one the tracker shows.                                              *)
(***************************************************************************)
TurnOrderDescending ==
    DistinctInitiatives(Roster) /\ RosterSize >= 1 =>
        \A list \in getCombatants(DefaultSession) :
            LET active == activeCombatant(list, Session)
                before == activeCombatant(list, PrevSession)
            IN /\ Handled("startCombat") => active # NoActive /\ Rank(active) = 0
               /\ hist.calls \in 0..(RosterSize - 1) =>
                      active # NoActive /\ Rank(active) = hist.calls
               /\ Handled("nextTurn") /\ PrevSession.currentTurn < RosterSize =>
                      /\ active # NoActive
                      /\ sent[1].id = active
                      /\ IF Rank(before) = RosterSize - 1
                         THEN /\ Rank(active) = 0
                              /\ Session.currentRound = PrevSession.currentRound + 1
                         ELSE /\ Rank(active) = Rank(before) + 1
                              /\ Session.currentRound = PrevSession.currentRound

TurnOrderDescendingWitness ==
    /\ Handled("nextTurn")
    /\ RosterSize = 3
    /\ DistinctInitiatives(Roster)
    /\ Roster[1].initiative < Roster[2].initiative
    /\ Roster[3].initiative < Roster[1].initiative
    /\ hist.calls = 3
    /\ Session.currentRound = 2
    /\ sent[1].id = Roster[2].id

RoundAtLeastOne ==
    /\ Session.currentRound >= 1
    /\ Handled("nextTurn") =>
           Session.currentRound =
               IF PrevSession.currentTurn + 1 >= Len(PrevRoster)
               THEN PrevSession.currentRound + 1
               ELSE PrevSession.currentRound

(***************************************************************************)
(* C7: the list GET combatants returns is a stable sort of the session's   *)
(* rows by initiative descending: a permutation of the rows, initiatives   *)
(* never increasing, rows of equal initiative in insertion order, and the  *)
(* tracker's sort of that list returns it unchanged.                       *)
(***************************************************************************)
OrderIsStableSort ==
    req.op = "getCombatants" /\ res.status = 200 =>
        LET rows == SessionRows(req.sid)
            order == res.order
            list == [i \in 1..Len(order) |-> Combatant(order[i])]
        IN /\ Len(order) = Len(rows)
           /\ {order[i] : i \in 1..Len(order)} = {rows[i].id : i \in 1..Len(rows)}
           /\ IsDescending(list)
           /\ \A i, j \in 1..Len(order) :
                  i < j /\ list[i].initiative = list[j].initiative =>
                      RowOf(order[i]) < RowOf(order[j])
           /\ Ids(sortedCombatants(list)) = order

(***************************************************************************)
(* C8: updateHP stores a currentHP between 0 and the combatant's maxHP for *)
(* every input: maxHP for an input above maxHP, 0 for an input below 0.    *)
(***************************************************************************)
UpdateHPClamps ==
    Handled("updateHP") =>
        LET c == Combatant(req.id)
        IN /\ 0 <= c.currentHP
           /\ c.currentHP <= c.maxHP
           /\ req.n > c.maxHP => c.currentHP = c.maxHP
           /\ req.n < 0 => c.currentHP = 0

(***************************************************************************)
(* C9: every combatant has 0 <= currentHP <= maxHP in every state.         *)
(***************************************************************************)
HPWithinBounds ==
    \A i \in 1..Len(combatants) :
        /\ 0 <= combatants[i].currentHP
        /\ combatants[i].currentHP <= combatants[i].maxHP

(***************************************************************************)
(* C10: every combatant has armorClass >= 1 in every state.                *)
(***************************************************************************)
ArmorClassAtLeastOne ==
    \A i \in 1..Len(combatants) : combatants[i].armorClass >= 1

\* the status effects of the combatant `id` before and after the request
PrevEffects(id) ==
    (CHOOSE c \in {prev.combatants[i] : i \in 1..Len(prev.combatants)} :
        c.id = id).statusEffects
Effects(id) == Combatant(id).statusEffects

(***************************************************************************)
(* C11  removeStatusEffect(combatant, index) with an index that is not a   *)
(* position of the combatant's list (index < 0 or index >= length) is      *)
(* answered normally and leaves the list as it was, element for element    *)
(* and in order.                                                           *)
(***************************************************************************)
RemoveOutOfRangeKeepsList ==
    (/\ req.op = "removeStatusEffect"
     /\ (req.n < 0 \/ req.n >= Len(PrevEffects(req.id))))
        => /\ res.status = 200
           /\ Effects(req.id) = PrevEffects(req.id)

RemoveOutOfRangeKeepsListWitness ==
    /\ req.op = "removeStatusEffect"
    /\ req.n < 0
    /\ res.status = 200
    /\ Len(PrevEffects(req.id)) >= 2

(***************************************************************************)
(* C12  addStatusEffect appends the effect at the end of the list: the     *)
(* length grows by one even if an effect of that name is carried already,  *)
(* and the entries there were keep their places.  removeStatusEffect with  *)
(* an index i that is a position of the list removes the i-th entry and    *)
(* nothing else: the length shrinks by one and the other entries keep      *)
(* their relative order.                                                   *)
(***************************************************************************)
AddAppendsRemoveDeletesOne ==
    /\ Handled("addStatusEffect") =>
           /\ Len(Effects(req.id)) = Len(PrevEffects(req.id)) + 1
           /\ SubSeq(Effects(req.id), 1, Len(PrevEffects(req.id)))
                  = PrevEffects(req.id)
           /\ Effects(req.id)[Len(Effects(req.id))] = req.n
    /\ (/\ Handled("removeStatusEffect")
        /\ req.n >= 0
        /\ req.n < Len(PrevEffects(req.id))) =>
           /\ Len(Effects(req.id)) = Len(PrevEffects(req.id)) - 1
           /\ \A k \in 1..Len(Effects(req.id)) :
                  Effects(req.id)[k] =
                      PrevEffects(req.id)[IF k <= req.n THEN k ELSE k + 1]

AddAppendsRemoveDeletesOneWitness ==
    /\ Handled("removeStatusEffect")
    /\ req.n = 1
    /\ Len(PrevEffects(req.id)) = 3
    /\ PrevEffects(req.id)[1] = PrevEffects(req.id)[2]
    /\ PrevEffects(req.id)[3] # PrevEffects(req.id)[1]

\* the last request asked one of the two POST routes to create a combatant
CreateOps == {"addCombatant", "addCombatantMem"}
\* the row the last request created
Created == Combatant(req.id)
\* what the column f of the created row has to hold for the body of req
Expected(f, dflt) == IF f \in DOMAIN req.n THEN req.n[f] ELSE dflt

(***************************************************************************)
(* C13  A combatant created from a body that names only the name has       *)
(* initiative 0, armorClass 10, currentHP 1, maxHP 1 and isActive false;   *)
(* a column the body does name is stored with the value given.             *)
(***************************************************************************)
CreateDefaults ==
    (req.op \in CreateOps /\ res.status = 201) =>
        /\ Created.name = req.n.name
        /\ Created.initiative = Expected("initiative", DefaultInitiative)
        /\ Created.armorClass = Expected("armorClass", DefaultArmorClass)
        /\ Created.currentHP = Expected("currentHP", DefaultCurrentHP)
        /\ Created.maxHP = Expected("maxHP", DefaultMaxHP)
        /\ Created.isActive = Expected("isActive", FALSE)

\* the same statement for the DatabaseStorage alone, with the empty list of
\* status effects
CreateDefaultsDatabase ==
    (req.op = "addCombatant" /\ res.status = 201) =>
        /\ Created.name = req.n.name
        /\ Created.initiative = Expected("initiative", DefaultInitiative)
        /\ Created.armorClass = Expected("armorClass", DefaultArmorClass)
        /\ Created.currentHP = Expected("currentHP", DefaultCurrentHP)
        /\ Created.maxHP = Expected("maxHP", DefaultMaxHP)
        /\ Created.isActive = Expected("isActive", FALSE)
        /\ Created.statusEffects = <<>>

\* the same statement for the MemStorage and a body of which no number is 0
CreateDefaultsMemNonZero ==
    (/\ req.op = "addCombatantMem"
     /\ res.status = 201
     /\ \A f \in DOMAIN req.n \cap NumericColumns : req.n[f] # 0) =>
        /\ Created.initiative = Expected("initiative", DefaultInitiative)
        /\ Created.armorClass = Expected("armorClass", DefaultArmorClass)
        /\ Created.currentHP = Expected("currentHP", DefaultCurrentHP)
        /\ Created.maxHP = Expected("maxHP", DefaultMaxHP)

\* the body of the last request has no name, or one that trims to nothing
BlankNameAsked == "name" \notin DOMAIN req.n \/ Trim(req.n.name) = <<>>

(***************************************************************************)
(* C14  Adding a combatant whose name is missing, empty or only whitespace *)
(* is rejected: no combatant is added and no combatant_added event is      *)
(* broadcast.  With a name that is not blank the combatant is appended to  *)
(* the roster and exactly one combatant_added event is broadcast.          *)
(***************************************************************************)
AddRejectsBlankName ==
    req.op \in CreateOps =>
        IF BlankNameAsked
        THEN /\ res.status \notin {200, 201}
             /\ combatants = prev.combatants
             /\ sent = <<>>
        ELSE /\ res.status = 201
             /\ combatants = Append(prev.combatants, Created)
             /\ Created.name = req.n.name
             /\ sent = <<Event("combatant_added", req.id)>>

\* the part of C14 the route does check: a body without a name is answered
\* 400 and changes nothing
AddRejectsMissingName ==
    (req.op \in CreateOps /\ "name" \notin DOMAIN req.n) =>
        /\ res.status = 400
        /\ combatants = prev.combatants
        /\ sent = <<>>

(***************************************************************************)
(* C15  Starting combat or advancing the turn while the session has no     *)
(* combatant is rejected and leaves inCombat, currentTurn and currentRound *)
(* as they were; in particular advancing on an empty roster does not wrap  *)
(* to index 0 with the round incremented.                                  *)
(***************************************************************************)
EmptyRosterGuarded ==
    (/\ req.op \in {"startCombat", "nextTurn"}
     /\ req.sid = DefaultSession
     /\ PrevRoster = <<>>) =>
        /\ res.status \notin {200, 201}
        /\ Session = PrevSession

\* what the routes do on an empty roster: start sets inCombat, turn 0 and
\* round 1; advance keeps turn 0 and increments the round
EmptyRosterWraps ==
    /\ (Handled("startCombat") /\ PrevRoster = <<>>) =>
           Session = [PrevSession EXCEPT !.inCombat = TRUE, !.currentTurn = 0,
                                         !.currentRound = 1]
    /\ (Handled("nextTurn") /\ PrevRoster = <<>>) =>
           Session = [PrevSession EXCEPT !.currentTurn = 0,
                                         !.currentRound = @ + 1]

\* the requests that name a session, and those that name a combatant
SessionOps == {"startCombat", "nextTurn", "endCombat"}
CombatantOps == {"updateCombatant", "removeCombatant"}
PrevIds == {prev.combatants[i].id : i \in 1..Len(prev.combatants)}

\* the last request named a session or a combatant that did not exist
AddressedMissing ==
    \/ req.op \in SessionOps /\ req.sid \notin DOMAIN prev.gameSessions
    \/ req.op \in CombatantOps /\ req.id \notin PrevIds

(***************************************************************************)
(* C16  combat/start, next-turn and combat/end on a session that does not  *)
(* exist, and PATCH and DELETE of a combatant id that does not exist, are  *)
(* answered 404 (not an exception): no session and no combatant changes    *)
(* and nothing is broadcast.                                               *)
(***************************************************************************)
MissingIsNotFound ==
    AddressedMissing =>
        /\ res.status = 404
        /\ gameSessions = prev.gameSessions
        /\ combatants = prev.combatants
        /\ sent = <<>>

MissingIsNotFoundWitness ==
    /\ req.op = "removeCombatant"
    /\ req.id \notin PrevIds
    /\ res.status = 404
    /\ Len(combatants) >= 2
    /\ Session.inCombat

\* the orders in which getCombatants could return the roster as it was
\* before the request
PrevOrders == OrderBy(PrevRoster, 1..Len(PrevRoster))

(***************************************************************************)
(* C17  Every next-turn that succeeds broadcasts exactly one turn_changed  *)
(* event.  Its session is the session as stored by the update, and its     *)
(* activeCombatant is the entry at the new currentTurn of the roster that  *)
(* the call read; activeCombatant is undefined only if that roster is      *)
(* empty.                                                                  *)
(***************************************************************************)
TurnChangedPayload ==
    Handled("nextTurn") =>
        /\ Len(sent) = 1
        /\ sent[1].type = "turn_changed"
        /\ sent[1].session = Session
        /\ \E list \in PrevOrders :
               sent[1].id = ActiveId(list, Session.currentTurn)
        /\ sent[1].id = NoActive => PrevRoster = <<>>

\* C17 without its last sentence, and the last sentence as the route has
\* it: activeCombatant is undefined exactly if the new currentTurn is not
\* an index of the roster read
TurnChangedPayloadAtIndex ==
    Handled("nextTurn") =>
        /\ Len(sent) = 1
        /\ sent[1].type = "turn_changed"
        /\ sent[1].session = Session
        /\ \E list \in PrevOrders :
               sent[1].id = ActiveId(list, Session.currentTurn)
        /\ sent[1].id = NoActive <=>
               (Session.currentTurn < 0 \/ Session.currentTurn >= Len(PrevRoster))

\* the viewer of the socket ws was connected when the last request was
\* handled: its socket was among the clients, open, and its transport
\* working
WasConnected(ws) ==
    /\ \E i \in 1..Len(prev.sockets.clients) : prev.sockets.clients[i] = ws
    /\ prev.sockets.readyState[ws] = "OPEN"
    /\ prev.sockets.fault[ws] = "no"

\* how many times the viewer of ws has received the event e
Copies(ws, e) == Cardinality({i \in 1..Len(inbox[ws]) : inbox[ws][i] = e})

(***************************************************************************)
(* C18  An event is delivered at most once to a viewer, and only to the    *)
(* viewers connected when it is broadcast: of a combatant_added event,     *)
(* every viewer connected at that moment has exactly one copy, and a       *)
(* viewer that connects later never receives it (a viewer holds no event   *)
(* for a combatant created before it connected).                           *)
(***************************************************************************)
DeliveredOnceToConnected ==
    /\ \A ws \in Sockets :
           /\ \A i, j \in 1..Len(inbox[ws]) :
                  inbox[ws][i] = inbox[ws][j] => i = j
           /\ \A i \in 1..Len(inbox[ws]) : inbox[ws][i].id >= joined[ws]
           /\ readyState[ws] = "NEW" => inbox[ws] = <<>>
    /\ (req.op = "addCombatant" /\ res.status = 201) =>
           \A ws \in Sockets :
               Copies(ws, sent[1]) = IF WasConnected(ws) THEN 1 ELSE 0

DeliveredOnceToConnectedWitness ==
    /\ req.op = "addCombatant"
    /\ res.status = 201
    /\ req.id = 2
    /\ WasConnected("ws1")
    /\ WasConnected("ws2")
    /\ joined["ws1"] = 1
    /\ joined["ws2"] = 2
    /\ inbox["ws1"] = <<Event("combatant_added", 1), Event("combatant_added", 2)>>
    /\ inbox["ws2"] = <<Event("combatant_added", 2)>>

(***************************************************************************)
(* C19  A broadcast reaches every viewer whose connection is open,         *)
(* whatever the state of the other connections: a connection that is       *)
(* closing or closed is skipped, and a closed or failing connection        *)
(* earlier in the iteration does not keep an open one after it from        *)
(* receiving the event.                                                    *)
(***************************************************************************)
BroadcastReachesOpen ==
    sent # <<>> =>
        \A ws \in Sockets :
            inbox[ws] = IF WasConnected(ws)
                        THEN prev.sockets.inbox[ws] \o sent
                        ELSE prev.sockets.inbox[ws]

BroadcastReachesOpenWitness ==
    /\ sent # <<>>
    /\ Len(prev.sockets.clients) = 2
    /\ prev.sockets.readyState[prev.sockets.clients[1]] = "CLOSING"
    /\ WasConnected(prev.sockets.clients[2])
    /\ inbox[prev.sockets.clients[2]] =
           prev.sockets.inbox[prev.sockets.clients[2]] \o sent
    /\ inbox[prev.sockets.clients[1]] = prev.sockets.inbox[prev.sockets.clients[1]]

(***************************************************************************)
(* C20  broadcast() never raises to the route that calls it: when the      *)
(* delivery to a viewer fails the route still answers with its normal      *)
(* success status and the state it wrote is kept, and once the failure of  *)
(* a socket has been handled that socket is no longer among the clients.   *)
(***************************************************************************)
BroadcastNeverRaises ==
    /\ (req.op = "addCombatant" /\ ~BlankNameAsked) =>
           /\ res.status = 201
           /\ combatants = Append(prev.combatants, Created)
    /\ \A ws \in Sockets : fault[ws] = "handled" => ~InClients(ws)

BroadcastNeverRaisesWitness ==
    /\ req.op = "addCombatant"
    /\ res.status = 201
    /\ combatants = Append(prev.combatants, Created)
    /\ \E ws \in Sockets :
           /\ prev.sockets.fault[ws] = "pending"
           /\ prev.sockets.readyState[ws] = "OPEN"
           /\ \E i \in 1..Len(prev.sockets.clients) : prev.sockets.clients[i] = ws
           /\ inbox[ws] = prev.sockets.inbox[ws]
           /\ fault[ws] = "handled"
           /\ ~InClients(ws)

\* the event type designated for each operation that writes the roster or
\* the session
Designated ==
    [addCombatant |-> "combatant_added",
     updateCombatant |-> "combatant_updated",
     removeCombatant |-> "combatant_removed",
     startCombat |-> "combat_started",
     nextTurn |-> "turn_changed",
     endCombat |-> "combat_ended",
     patchSession |-> "session_updated"]

Taxonomy ==
    {"character_updated", "combatant_added", "combatant_updated",
     "combatant_removed", "combat_started", "combat_ended", "turn_changed",
     "session_updated", "user_joined", "user_left", "dice_rolled"}

\* the state the event speaks of is the state stored
EventIsOfStoredState(e) ==
    CASE e.type \in {"combatant_added", "combatant_updated"} ->
             e.id \in CombatantIds
      [] e.type = "combatant_removed" -> e.id \notin CombatantIds
      [] e.type \in {"combat_started", "combat_ended", "turn_changed",
                     "session_updated"} -> e.session = gameSessions[req.sid]
      [] OTHER -> FALSE

CreateSessionIsSilent ==
    (req.op = "createSession" /\ res.status = 201) =>
        /\ SessionExists(CreatedSession)
        /\ sent = <<>>

\* the two requests have been answered and had read the same session and
\* rosters of the same length
SameRead(a, b) ==
    /\ a # b
    /\ calls[a].pc = "done"
    /\ calls[b].pc = "done"
    /\ calls[a].read = calls[b].read
    /\ Len(calls[a].list) = Len(calls[b].list)

\* the session as one advance over a roster of n rows leaves it
AdvancedOnce(session, n) ==
    [session EXCEPT
        !.currentTurn = NextTurnIndex(session.currentTurn, n),
        !.currentRound = NextRoundNumber(session.currentTurn,
                                         session.currentRound, n)]

(***************************************************************************)
(* C22  Two next-turn requests that overlap are not serialised: when both  *)
(* have read the same session, both write the turn and round of a single   *)
(* advance of what they read, each is answered with success and each       *)
(* broadcasts one turn_changed event, so the session is advanced by one    *)
(* turn only (a lost update).                                              *)
(***************************************************************************)
ConcurrentAdvanceLosesUpdate ==
    \A a, b \in Calls :
        SameRead(a, b) =>
            /\ calls[a].updated.currentTurn =
                   AdvancedOnce(calls[a].read, Len(calls[a].list)).currentTurn
            /\ calls[a].updated.currentRound =
                   AdvancedOnce(calls[a].read, Len(calls[a].list)).currentRound
            /\ calls[b].updated.currentTurn = calls[a].updated.currentTurn
            /\ calls[b].updated.currentRound = calls[a].updated.currentRound
            /\ calls[a].events = 1
            /\ calls[b].events = 1

\* both requests read turn 0 of a roster of two in round 1 and both were
\* answered; the session stands at turn 1, not at turn 0 of round 2
ConcurrentAdvanceLosesUpdateWitness ==
    /\ SameRead("c1", "c2")
    /\ Len(calls["c1"].list) = 2
    /\ calls["c1"].read.currentTurn = 0
    /\ calls["c1"].read.inCombat
    /\ RosterSize = 2
    /\ Session.currentTurn = 1
    /\ Session.currentRound = calls["c1"].read.currentRound
    /\ req.op = "nextTurn"
    /\ res.status = 200

(***************************************************************************)
(* C23: removing a combatant deletes exactly the row with that id and      *)
(* leaves currentTurn, currentRound and inCombat as they were, wherever    *)
(* the removed combatant stood in the order; the combatant at index        *)
(* currentTurn of the sorted roster can therefore change or vanish         *)
(* without a next-turn call.                                               *)
(***************************************************************************)
RemoveKeepsSession ==
    req.op = "removeCombatant" /\ res.status = 200 =>
        /\ req.id \in PrevIds
        /\ combatants = SelectSeq(prev.combatants, LAMBDA c : c.id # req.id)
        /\ gameSessions = prev.gameSessions

\* the combatant that had the turn is removed and nobody has it afterwards
RemoveKeepsSessionWitness ==
    /\ Handled("removeCombatant")
    /\ Session.inCombat
    /\ Session.currentTurn = 1
    /\ Len(PrevRoster) = 2
    /\ activeCombatant(PrevRoster, PrevSession) = req.id
    /\ activeCombatant(Roster, Session) = NoActive

\* the combatant before the active one is removed: the turn passes to
\* another combatant although no next-turn was called
RemoveShiftsActive ==
    /\ Handled("removeCombatant")
    /\ Session.inCombat
    /\ Session.currentTurn = 1
    /\ Len(PrevRoster) = 3
    /\ activeCombatant(PrevRoster, PrevSession) # req.id
    /\ activeCombatant(Roster, Session) # NoActive
    /\ activeCombatant(Roster, Session) # activeCombatant(PrevRoster, PrevSession)

(***************************************************************************)
(* C24: inCombat changes only through combat/start and combat/end, and     *)
(* currentTurn and currentRound change only through next-turn and the      *)
(* resets of combat/start and combat/end; no roster mutation and no other  *)
(* exposed operation changes any of the three.                             *)
(***************************************************************************)
SessionFieldsFrame ==
    /\ Session.inCombat # PrevSession.inCombat =>
           req.op \in {"startCombat", "endCombat"}
    /\ Session.currentTurn # PrevSession.currentTurn =>
           req.op \in {"nextTurn", "startCombat", "endCombat"}
    /\ Session.currentRound # PrevSession.currentRound =>
           req.op \in {"nextTurn", "startCombat", "endCombat"}

\* the part of C24 that holds: the three fields change through the combat
\* routes and through PATCH /api/game-sessions/:id, never through a roster
\* mutation or the creation of another session
SessionFieldsFrameButPatch ==
    Session # PrevSession =>
        req.op \in {"nextTurn", "startCombat", "endCombat", "patchSession"}

(***************************************************************************)
(* C25: whenever the session is not in combat its currentTurn is 0, and a  *)
(* next-turn call made while inCombat is false changes neither currentTurn *)
(* nor currentRound, after any sequence of start, next-turn and end.       *)
(***************************************************************************)
IdleTurnIsZero ==
    /\ ~Session.inCombat => Session.currentTurn = 0
    /\ Handled("nextTurn") /\ ~PrevSession.inCombat =>
           /\ Session.currentTurn = PrevSession.currentTurn
           /\ Session.currentRound = PrevSession.currentRound

\* the part of C25 that holds: combat/end leaves the session out of combat
\* at turn 0, and currentTurn is 0 out of combat until next-turn is called
IdleTurnIsZeroAfterEnd ==
    /\ Handled("endCombat") => ~Session.inCombat /\ Session.currentTurn = 0
    /\ ~Session.inCombat /\ Session.currentTurn # 0 =>
           \/ req.op = "nextTurn"
           \/ PrevSession.currentTurn # 0

(***************************************************************************)
(* C26: server and client agree on who is active.  For every roster, ties  *)
(* in initiative included, the activeCombatant of a turn_changed event is  *)
(* the combatant the tracker highlights once it has fetched the roster     *)
(* again, the roster being the same at both reads: the tracker's sorted    *)
(* list at index currentTurn.                                              *)
(***************************************************************************)
ServerClientAgreeOnActive ==
    Handled("nextTurn") =>
        \A list \in getCombatants(DefaultSession) :
            activeCombatant(list, Session) = sent[1].id

\* the part of C26 that holds: they agree when no two combatants of the
\* roster have the same initiative
ServerClientAgreeWithoutTies ==
    Handled("nextTurn") /\ DistinctInitiatives(Roster) =>
        \A list \in getCombatants(DefaultSession) :
            activeCombatant(list, Session) = sent[1].id

(***************************************************************************)
(* C27: between a combat/start and the next combat/start, currentRound     *)
(* never decreases, under every interleaving of next-turn, combat/end and  *)
(* roster requests that overlap: no write of a next-turn call made while   *)
(* the combat runs stores a round lower than the one it overwrites.        *)
(***************************************************************************)
RoundNeverDecreases ==
    \A c \in Calls :
        calls[c].pc \in {"written", "done"} /\ calls[c].before.inCombat =>
            calls[c].updated.currentRound >= calls[c].before.currentRound

\* the part of C27 that holds: a next-turn write lowers the round only when
\* the session it read is no longer the one stored
RoundLoweredOnlyByStaleWrite ==
    \A c \in Calls :
        calls[c].pc \in {"written", "done"}
          /\ calls[c].read = calls[c].before =>
            calls[c].updated.currentRound >= calls[c].before.currentRound

(***************************************************************************)
(* C28: no status-effect update is lost.  When two viewers add an effect   *)
(* to the same combatant (or one adds and one removes), each from a copy   *)
(* of the combatant fetched before the other's write, the stored list      *)
(* reflects both: an add leaves every effect stored by then in place and   *)
(* appends its own, a remove takes out the entry at its index and no       *)
(* other.                                                                  *)
(***************************************************************************)
NoEffectUpdateLost ==
    /\ Handled("addStatusEffect") =>
           Effects(req.id) = Append(PrevEffects(req.id), req.n)
    /\ Handled("removeStatusEffect") =>
           Effects(req.id) = WithoutIndex(PrevEffects(req.id), req.n)

(***************************************************************************)
(* C29: the view of a connected viewer converges.  The tracker receives    *)
(* the event of every change of the roster and of the session; it fetches  *)
(* the data concerned again, so that once the changes have stopped the     *)
(* roster, currentTurn, currentRound and inCombat it shows are eventually  *)
(* the stored ones, and stay so.                                           *)
(***************************************************************************)
RosterAgrees(v) == views[v].roster \in getCombatants(DefaultSession)

SessionAgrees(v) == views[v].session = Session

ViewConverges ==
    \A v \in Sockets : <>[](RosterAgrees(v) /\ SessionAgrees(v))

\* the part of C29 that holds: the roster shown converges, and so does the
\* session shown unless the socket was sent a session_updated event
ViewConvergesButSessionUpdated ==
    \A v \in Sockets :
        <>[](/\ RosterAgrees(v)
             /\ \/ SessionAgrees(v)
                \/ \E i \in 1..Len(inbox[v]) : inbox[v][i].type = "session_updated")

(***************************************************************************)
(* C30: the earlier tracker's nextTurn() and the next-turn route compute   *)
(* the same transition: for every roster length N >= 0 and every index and *)
(* round, the tracker's next index and next round are those the route      *)
(* stores, and the combatant the tracker marks isActive = true is the one  *)
(* it shows as having the turn.                                            *)
(***************************************************************************)
LegacyAgreesWithServer ==
    \A v \in Sockets :
        views[v].stepped =>
            /\ views[v].activeIndex =
                   NextTurnIndex(views[v].was.activeIndex, views[v].was.n)
            /\ views[v].currentRound =
                   NextRoundNumber(views[v].was.activeIndex,
                                   views[v].was.currentRound, views[v].was.n)
            /\ views[v].marked = views[v].shown

\* the part of C30 that holds: the two agree on every roster that is not
\* empty, and the combatant marked is the one shown on every roster
LegacyAgreesOnNonEmpty ==
    \A v \in Sockets :
        views[v].stepped =>
            /\ views[v].was.n >= 1 =>
                   /\ views[v].activeIndex =
                          NextTurnIndex(views[v].was.activeIndex, views[v].was.n)
                   /\ views[v].currentRound =
                          NextRoundNumber(views[v].was.activeIndex,
                                          views[v].was.currentRound,
                                          views[v].was.n)
            /\ views[v].marked = views[v].shown

\* the tracker stands past the end of a roster that has shrunk, advances,
\* and marks the first combatant
LegacyPastTheEnd ==
    \E v \in Sockets :
        /\ views[v].stepped
        /\ views[v].was.n = 1
        /\ views[v].was.activeIndex = 1
        /\ views[v].marked # NoActive

====
